---- MODULE Spec2Model ----
(***************************************************************************)
(* Model of client-request (src/index.mjs): the six public operations, the *)
(* options builder, the body encoder (sendPost), the dispatcher            *)
(* (sendRequest) with its request/response event listeners, and the        *)
(* promise each call returns.                                              *)
(*                                                                         *)
(* Representation.                                                         *)
(*  - A headers map is a function from the header names present to their   *)
(*    values, stored in a heap of caller-owned objects (heap[hid]); the    *)
(*    code keeps a reference to the caller's object (options.headers), so  *)
(*    a write by sendPost is a write to the heap.                          *)
(*  - Content-Type and Content-Length values are strings.  A               *)
(*    Request-Timeout value is a sequence of one-character strings, so     *)
(*    that parseInt can be computed on it.                                 *)
(*  - A JavaScript text (request payload, JSON text, form text) is a       *)
(*    sequence of Unicode code points (all in the basic plane); a Buffer   *)
(*    is a sequence of bytes 0..255.                                       *)
(*  - Everything a public operation does up to and including req.end() is  *)
(*    synchronous (no await precedes it), hence one atomic action.         *)
(*  - The transport (node:http/https) and the body decoder                 *)
(*    (@popovmp/request-parser) are the environment: the transport         *)
(*    delivers events to the listeners sendRequest registered, the         *)
(*    decoder returns a value or throws.                                   *)
(***************************************************************************)
EXTENDS Integers, Sequences, FiniteSets, TLC

VARIABLES heap, heap0, call, req, res, outcome, hist

vars == <<heap, heap0, call, req, res, outcome, hist>>

(***************************************************************************)
(* Bounds of the model.                                                    *)
(***************************************************************************)
\* longest text / Buffer a caller passes as data
MaxDataLen == 2
\* most "data" events delivered for one response
MaxChunks == 2

Calls == {1, 2}
HeaderIds == {1, 2}

(***************************************************************************)
(* Texts, bytes and the conversions the code applies to them.              *)
(***************************************************************************)
RECURSIVE SeqsUpTo(_, _)
SeqsUpTo(S, n) ==
    IF n = 0 THEN {<<>>}
    ELSE LET shorter == SeqsUpTo(S, n - 1)
         IN  shorter \cup {Append(s, x) : s \in shorter, x \in S}

RECURSIVE Flatten(_)
Flatten(ss) == IF ss = <<>> THEN <<>> ELSE Head(ss) \o Flatten(Tail(ss))

DigitText == <<"0", "1", "2", "3", "4", "5", "6", "7", "8", "9">>

\* Number.prototype.toString() of a non-negative integer, as a header value
RECURSIVE IntToString(_)
IntToString(n) ==
    IF n < 10 THEN DigitText[n + 1]
    ELSE IntToString(n \div 10) \o DigitText[(n % 10) + 1]

\* String(n) of a non-negative integer, as a text
RECURSIVE NumToText(_)
NumToText(n) ==
    IF n < 10 THEN <<48 + n>>
    ELSE Append(NumToText(n \div 10), 48 + (n % 10))

\* the UTF-8 encoding of one code point of the basic plane
Utf8OfCodePoint(cp) ==
    IF cp < 128 THEN <<cp>>
    ELSE IF cp < 2048 THEN <<192 + (cp \div 64), 128 + (cp % 64)>>
    ELSE <<224 + (cp \div 4096), 128 + ((cp \div 64) % 64), 128 + (cp % 64)>>

\* the bytes req.write(text) puts on the wire (default encoding utf8)
RECURSIVE Utf8Encode(_)
Utf8Encode(s) ==
    IF s = <<>> THEN <<>> ELSE Utf8OfCodePoint(Head(s)) \o Utf8Encode(Tail(s))

\* Buffer.byteLength(text): the number of bytes of the text in UTF-8
RECURSIVE ByteLength(_)
ByteLength(s) ==
    IF s = <<>> THEN 0
    ELSE (IF Head(s) < 128 THEN 1 ELSE IF Head(s) < 2048 THEN 2 ELSE 3)
         + ByteLength(Tail(s))

HexDigit(d) == IF d < 10 THEN 48 + d ELSE 55 + d

RECURSIVE PercentBytes(_)
PercentBytes(bs) ==
    IF bs = <<>> THEN <<>>
    ELSE <<37, HexDigit(Head(bs) \div 16), HexDigit(Head(bs) % 16)>>
         \o PercentBytes(Tail(bs))

\* A-Z a-z 0-9 - _ . ! ~ * ' ( )
UriUnreserved(cp) ==
    \/ cp \in 65..90 \/ cp \in 97..122 \/ cp \in 48..57
    \/ cp \in {45, 95, 46, 33, 126, 42, 39, 40, 41}

RECURSIVE encodeURIComponent(_)
encodeURIComponent(s) ==
    IF s = <<>> THEN <<>>
    ELSE (IF UriUnreserved(Head(s)) THEN <<Head(s)>>
          ELSE PercentBytes(Utf8OfCodePoint(Head(s))))
         \o encodeURIComponent(Tail(s))

(***************************************************************************)
(* JavaScript values a caller can pass as data.                            *)
(***************************************************************************)
Null == [t |-> "null"]
Undefined == [t |-> "undefined"]
BufferOf(bytes) == [t |-> "buffer", bytes |-> bytes]
TextOf(s) == [t |-> "string", s |-> s]
NumberOf(n) == [t |-> "number", n |-> n]
BooleanOf(b) == [t |-> "boolean", b |-> b]
\* the object {text: s}
ObjectOf(s) == [t |-> "object", text |-> s, cyclic |-> FALSE]
\* an object that refers to itself: const o = {}; o.self = o
CyclicObject == [t |-> "object", text |-> <<>>, cyclic |-> TRUE]

\* 'f' and the euro sign (three bytes in UTF-8)
TextChars == {102, 8364}
ByteVals == {102, 255}

Texts(n) == SeqsUpTo(TextChars, n)
Buffers(n) == SeqsUpTo(ByteVals, n)

DataValues(n) ==
    {Null, Undefined}
    \cup {BufferOf(b) : b \in Buffers(n)}
    \cup {TextOf(s) : s \in Texts(n)}
    \cup {NumberOf(0), NumberOf(42), BooleanOf(FALSE)}
    \cup {ObjectOf(s) : s \in Texts(1)}
    \cup {CyclicObject}

RECURSIVE JsonEscape(_)
JsonEscape(s) ==
    IF s = <<>> THEN <<>>
    ELSE (IF Head(s) \in {34, 92} THEN <<92, Head(s)>> ELSE <<Head(s)>>)
         \o JsonEscape(Tail(s))

JsonQuote(s) == <<34>> \o JsonEscape(s) \o <<34>>

RECURSIVE JsonNumberList(_)
JsonNumberList(ns) ==
    IF ns = <<>> THEN <<>>
    ELSE NumToText(Head(ns))
         \o (IF Tail(ns) = <<>> THEN <<>> ELSE <<44>>)
         \o JsonNumberList(Tail(ns))

\* JSON.stringify(data) throws TypeError (circular structure)
JsonStringifyThrows(data) == data.t = "object" /\ data.cyclic

\* JSON.stringify(data): a text, or undefined
JsonStringify(data) ==
    CASE data.t = "null" -> TextOf(<<110, 117, 108, 108>>)
      [] data.t = "undefined" -> Undefined
      [] data.t = "string" -> TextOf(JsonQuote(data.s))
      [] data.t = "number" -> TextOf(NumToText(data.n))
      [] data.t = "boolean" ->
            TextOf(IF data.b THEN <<116, 114, 117, 101>>
                   ELSE <<102, 97, 108, 115, 101>>)
      \* {"text":"..."}
      [] data.t = "object" ->
            TextOf(<<123, 34, 116, 101, 120, 116, 34, 58>>
                   \o JsonQuote(data.text) \o <<125>>)
      \* {"type":"Buffer","data":[...]}
      [] data.t = "buffer" ->
            TextOf(<<123, 34, 116, 121, 112, 101, 34, 58, 34, 66, 117, 102,
                     102, 101, 114, 34, 44, 34, 100, 97, 116, 97, 34, 58, 91>>
                   \o JsonNumberList(data.bytes) \o <<93, 125>>)

\* String(data) for the values postPut passes to it, and for form values
JsString(data) ==
    CASE data.t = "string" -> data.s
      [] data.t = "number" -> NumToText(data.n)
      [] data.t = "boolean" ->
            IF data.b THEN <<116, 114, 117, 101>> ELSE <<102, 97, 108, 115, 101>>

\* if (postData): the JavaScript truthiness of what reaches sendRequest
Truthy(data) ==
    CASE data.t = "buffer" -> TRUE
      [] data.t = "string" -> data.s # <<>>
      [] OTHER -> FALSE

(***************************************************************************)
(* Headers maps.                                                           *)
(***************************************************************************)
NoHeaders == [k \in {} |-> ""]

Has(h, k) == k \in DOMAIN h

Put(h, k, v) == [x \in (DOMAIN h) \cup {k} |-> IF x = k THEN v ELSE h[x]]

\* !headers[k]: the entry is missing or the empty string
Falsy(h, k) == ~Has(h, k) \/ h[k] = ""

WithEntries(ct, cl, rt) ==
    LET h1 == IF ct = <<>> THEN NoHeaders ELSE Put(NoHeaders, "Content-Type", ct[1])
        h2 == IF cl = <<>> THEN h1 ELSE Put(h1, "Content-Length", cl[1])
    IN  IF rt = <<>> THEN h2 ELSE Put(h2, "Request-Timeout", rt[1])

(***************************************************************************)
(* parseInt on a text given as one-character strings: leading blanks, an   *)
(* optional sign, then the longest prefix of decimal digits; NaN when no   *)
(* digit is found.  (The texts of the model hold no "0x" prefix.)          *)
(***************************************************************************)
NaN == [nan |-> TRUE, n |-> 0]

IsDigit(ch) == \E i \in 1..10 : DigitText[i] = ch

DigitValue(ch) == (CHOOSE i \in 1..10 : DigitText[i] = ch) - 1

RECURSIVE SkipBlanks(_)
SkipBlanks(s) ==
    IF s # <<>> /\ Head(s) = " " THEN SkipBlanks(Tail(s)) ELSE s

RECURSIVE DigitPrefix(_)
DigitPrefix(s) ==
    IF s # <<>> /\ IsDigit(Head(s)) THEN <<Head(s)>> \o DigitPrefix(Tail(s))
    ELSE <<>>

RECURSIVE DecimalValue(_)
DecimalValue(ds) ==
    IF ds = <<>> THEN 0
    ELSE DecimalValue(SubSeq(ds, 1, Len(ds) - 1)) * 10 + DigitValue(ds[Len(ds)])

parseInt(s) ==
    LET t == SkipBlanks(s)
        signed == t # <<>> /\ Head(t) \in {"+", "-"}
        u == IF signed THEN Tail(t) ELSE t
        d == DigitPrefix(u)
    IN  IF d = <<>> THEN NaN
        ELSE [nan |-> FALSE,
              n |-> IF signed /\ Head(t) = "-" THEN 0 - DecimalValue(d)
                    ELSE DecimalValue(d)]

(***************************************************************************)
(* URLs.  new URL(url) is the platform's parser: a URL string is given by  *)
(* what the parser makes of it, or by the fact that it throws.             *)
(***************************************************************************)
BadUrl ==
    [valid |-> FALSE, protocol |-> "", hostname |-> "", port |-> <<>>,
     pathname |-> "", search |-> ""]

HttpsUrl ==
    [valid |-> TRUE, protocol |-> "https:", hostname |-> "httpbin.org",
     port |-> <<>>, pathname |-> "/post", search |-> "?foo=bar"]

HttpUrl ==
    [valid |-> TRUE, protocol |-> "http:", hostname |-> "localhost",
     port |-> <<>>, pathname |-> "/", search |-> ""]

HttpPortUrl ==
    [valid |-> TRUE, protocol |-> "http:", hostname |-> "localhost",
     port |-> <<"8", "0", "8", "0">>, pathname |-> "/", search |-> ""]

HttpsPortUrl ==
    [valid |-> TRUE, protocol |-> "https:", hostname |-> "httpbin.org",
     port |-> <<"8", "4", "4", "3">>, pathname |-> "/post", search |-> ""]

\* UrlThrows for a parser that accepts every string
UrlThrows_Never(url) == FALSE

\* new URL(url) throws TypeError (ERR_INVALID_URL)
UrlThrows(url) == ~url.valid

\* makeReqOptions comparing the protocol with "https", without the colon
makeReqOptions_SchemeWithoutColon(url, hid, method) ==
    [hostname |-> url.hostname,
     path     |-> url.pathname \o url.search,
     protocol |-> url.protocol,
     port     |-> IF url.port # <<>> THEN parseInt(url.port).n
                  ELSE IF url.protocol = "https" THEN 443 ELSE 80,
     headers  |-> hid,
     method   |-> method]

makeReqOptions(url, hid, method) ==
    [hostname |-> url.hostname,
     path     |-> url.pathname \o url.search,
     protocol |-> url.protocol,
     port     |-> IF url.port # <<>> THEN parseInt(url.port).n
                  ELSE IF url.protocol = "https:" THEN 443 ELSE 80,
     headers  |-> hid,
     method   |-> method]

(***************************************************************************)
(* The body encoder.                                                       *)
(***************************************************************************)
OctetStream == "application/octet-stream"
JsonType == "application/json;charset=utf-8"
PlainText == "text/plain;charset=utf-8"
FormType == "application/x-www-form-urlencoded"

\* postPut: the (data, contentType) pair handed to sendPost
\* postPut testing !data: the empty string takes the branch of null
postPutBody_EmptyStringAsNull(data) ==
    CASE data.t \in {"null", "undefined"} -> [data |-> Null, contentType |-> ""]
      [] data.t = "string" /\ data.s = <<>> -> [data |-> Null, contentType |-> ""]
      [] data.t = "buffer" -> [data |-> data, contentType |-> OctetStream]
      [] data.t = "object" -> [data |-> JsonStringify(data), contentType |-> JsonType]
      [] data.t = "string" -> [data |-> data, contentType |-> PlainText]
      [] OTHER -> [data |-> TextOf(JsString(data)), contentType |-> PlainText]

\* postPut without the Buffer.isBuffer branch: a Buffer is an object
postPutBody_BufferAsObject(data) ==
    CASE data.t \in {"null", "undefined"} -> [data |-> Null, contentType |-> ""]
      [] data.t \in {"object", "buffer"} ->
            [data |-> JsonStringify(data), contentType |-> JsonType]
      [] data.t = "string" -> [data |-> data, contentType |-> PlainText]
      [] OTHER -> [data |-> TextOf(JsString(data)), contentType |-> PlainText]

postPutBody(data) ==
    CASE data.t \in {"null", "undefined"} -> [data |-> Null, contentType |-> ""]
      [] data.t = "buffer" -> [data |-> data, contentType |-> OctetStream]
      [] data.t = "object" -> [data |-> JsonStringify(data), contentType |-> JsonType]
      [] data.t = "string" -> [data |-> data, contentType |-> PlainText]
      [] OTHER -> [data |-> TextOf(JsString(data)), contentType |-> PlainText]

RECURSIVE JoinParams(_)
JoinParams(params) ==
    IF params = <<>> THEN <<>>
    ELSE Head(params)
         \o (IF Tail(params) = <<>> THEN <<>> ELSE <<38>>)
         \o JoinParams(Tail(params))

\* requestForm encoding the keys only, the values put in as they are
formQueryText_RawValues(pairs) ==
    JoinParams([i \in 1..Len(pairs) |->
                  encodeURIComponent(pairs[i][1]) \o <<61>>
                  \o JsString(pairs[i][2])])

\* requestForm: formData is the sequence of its (key, value) entries in
\* Object.keys order
formQueryText(pairs) ==
    JoinParams([i \in 1..Len(pairs) |->
                  encodeURIComponent(pairs[i][1]) \o <<61>>
                  \o encodeURIComponent(JsString(pairs[i][2]))])

\* contentLengthOf counting the characters of a text (data.length)
contentLengthOf_CharCount(data) ==
    IF data.t = "buffer" THEN IntToString(Len(data.bytes))
    ELSE IF data.t = "string" THEN IntToString(Len(data.s))
    ELSE "0"

\* sendPost: the value of Content-Length
contentLengthOf(data) ==
    IF data.t = "buffer" THEN IntToString(Len(data.bytes))
    ELSE IF data.t = "string" THEN IntToString(ByteLength(data.s))
    ELSE "0"

\* sendPost adding a charset parameter to a Content-Type it finds in the map
sendPostHeaders_AppendCharset(h, data, contentType) ==
    LET h1 == Put(h, "Content-Length", contentLengthOf(data))
    IN  IF contentType = "" THEN h1
        ELSE IF Falsy(h1, "Content-Type") THEN Put(h1, "Content-Type", contentType)
        ELSE Put(h1, "Content-Type", h1["Content-Type"] \o ";charset=utf-8")

\* sendPost: the headers map after the two assignments
sendPostHeaders(h, data, contentType) ==
    LET h1 == Put(h, "Content-Length", contentLengthOf(data))
    IN  IF contentType # "" /\ Falsy(h1, "Content-Type")
        THEN Put(h1, "Content-Type", contentType)
        ELSE h1

\* requestTimeout testing typeof ... === "number": a text never arms it
requestTimeout_NumbersOnly(h) == <<>>

\* sendRequest: the milliseconds passed to req.setTimeout, if it is called
requestTimeout(h) ==
    IF Has(h, "Request-Timeout")
    THEN LET timeOut == parseInt(h["Request-Timeout"])
         IN  IF ~timeOut.nan THEN <<timeOut.n * 1000>> ELSE <<>>
    ELSE <<>>

\* sendRequest: what req.write puts on the wire, one entry per write
requestWrites(postData) ==
    IF Truthy(postData)
    THEN <<IF postData.t = "buffer" THEN postData.bytes ELSE Utf8Encode(postData.s)>>
    ELSE <<>>

\* sendRequest ending the request before it writes the payload
requestCalls_EndFirst(postData) ==
    <<"end">> \o (IF Truthy(postData) THEN <<"write">> ELSE <<>>)

\* sendRequest: its calls of req.write and req.end, in program order
requestCalls(postData) ==
    (IF Truthy(postData) THEN <<"write">> ELSE <<>>) \o <<"end">>

(***************************************************************************)
(* The promise of a call.                                                  *)
(***************************************************************************)
NoPromise == [kind |-> "none", error |-> "", value |-> <<>>]
Pending == [kind |-> "pending", error |-> "", value |-> <<>>]
Rejected(e) == [kind |-> "rejected", error |-> e, value |-> <<>>]
Fulfilled(v) == [kind |-> "fulfilled", error |-> "", value |-> <<v>>]

\* settle for a callback-style result: the last call decides
settle_LastWins(o, new) == new

\* resolve / reject of the promise created in sendRequest: only the first
\* call settles it
settle(o, new) == IF o.kind = "pending" THEN new ELSE o

(***************************************************************************)
(* State.                                                                  *)
(***************************************************************************)
NoCall == <<>>

NoRequest ==
    [created |-> FALSE, options |-> <<>>, headers |-> NoHeaders,
     timeout |-> <<>>, writes |-> <<>>, ended |-> FALSE, destroyed |-> FALSE,
     requests |-> 0, calls |-> <<>>]

NoResponse == [state |-> "none", contentType |-> <<>>, statusCode |-> 0, chunks |-> <<>>]

NoHistory ==
    [settles |-> 0, terminal |-> FALSE, reqError |-> FALSE,
     timedOutPending |-> FALSE, decoded |-> <<>>, decoderThrew |-> FALSE,
     atEnd |-> "", arrived |-> <<>>]

Called(c) == call[c] # NoCall
CallOf(c) == call[c][1]

InitCalls ==
    /\ heap0 = heap
    /\ call = [c \in Calls |-> NoCall]
    /\ req = [c \in Calls |-> NoRequest]
    /\ res = [c \in Calls |-> NoResponse]
    /\ outcome = [c \in Calls |-> NoPromise]
    /\ hist = [c \in Calls |-> NoHistory]

(***************************************************************************)
(* The synchronous part of a call.                                         *)
(***************************************************************************)
enter(c, op, url, data, hid) ==
    /\ ~Called(c)
    /\ call' = [call EXCEPT ![c] =
                  <<[op |-> op, url |-> url, data |-> data, hid |-> hid,
                     before |-> heap[hid]]>>]

\* an exception thrown in the body of an async function rejects its promise
throwInvalidUrl(c) ==
    /\ outcome' = [outcome EXCEPT ![c] = Rejected("InvalidUrl")]
    /\ UNCHANGED <<heap, req>>

\* JSON.stringify throwing in the body of an async function
throwTypeError(c) ==
    /\ outcome' = [outcome EXCEPT ![c] = Rejected("TypeError")]
    /\ UNCHANGED <<heap, req>>

\* reads heap': the headers map as sendPost left it
sendRequest(c, options, postData) ==
    /\ req' = [req EXCEPT ![c] =
                 [created   |-> TRUE,
                  options   |-> <<options>>,
                  headers   |-> heap'[options.headers],
                  timeout   |-> requestTimeout(heap'[options.headers]),
                  writes    |-> requestWrites(postData),
                  ended     |-> TRUE,
                  destroyed |-> FALSE,
                  requests  |-> req[c].requests + 1,
                  calls     |-> requestCalls(postData)]]
    /\ outcome' = [outcome EXCEPT ![c] = Pending]

sendPost(c, options, data, contentType) ==
    /\ heap' = [heap EXCEPT ![options.headers] = sendPostHeaders(@, data, contentType)]
    /\ sendRequest(c, options, data)

requestHead(c, url, hid) ==
    /\ enter(c, "requestHead", url, Undefined, hid)
    /\ IF UrlThrows(url) THEN throwInvalidUrl(c)
       ELSE /\ heap' = heap
            /\ sendRequest(c, makeReqOptions(url, hid, "HEAD"), Null)
    /\ UNCHANGED <<heap0, res, hist>>

\* requestGet sent through sendPost with no data
requestGet_ViaSendPost(c, url, hid) ==
    /\ enter(c, "requestGet", url, Undefined, hid)
    /\ IF UrlThrows(url) THEN throwInvalidUrl(c)
       ELSE sendPost(c, makeReqOptions(url, hid, "GET"), Null, "")
    /\ UNCHANGED <<heap0, res, hist>>

requestGet(c, url, hid) ==
    /\ enter(c, "requestGet", url, Undefined, hid)
    /\ IF UrlThrows(url) THEN throwInvalidUrl(c)
       ELSE /\ heap' = heap
            /\ sendRequest(c, makeReqOptions(url, hid, "GET"), Null)
    /\ UNCHANGED <<heap0, res, hist>>

postPut(c, method, url, data, hid) ==
    IF UrlThrows(url) THEN throwInvalidUrl(c)
    ELSE IF data.t = "object" /\ JsonStringifyThrows(data) THEN throwTypeError(c)
    ELSE sendPost(c, makeReqOptions(url, hid, method),
                  postPutBody(data).data, postPutBody(data).contentType)

requestPost(c, url, data, hid) ==
    /\ enter(c, "requestPost", url, data, hid)
    /\ postPut(c, "POST", url, data, hid)
    /\ UNCHANGED <<heap0, res, hist>>

requestPut(c, url, data, hid) ==
    /\ enter(c, "requestPut", url, data, hid)
    /\ postPut(c, "PUT", url, data, hid)
    /\ UNCHANGED <<heap0, res, hist>>

requestJson(c, url, data, hid) ==
    /\ enter(c, "requestJson", url, data, hid)
    /\ IF UrlThrows(url) THEN throwInvalidUrl(c)
       ELSE IF JsonStringifyThrows(data) THEN throwTypeError(c)
       ELSE sendPost(c, makeReqOptions(url, hid, "POST"), JsonStringify(data), JsonType)
    /\ UNCHANGED <<heap0, res, hist>>

\* formData is [t |-> "form", pairs |-> its entries]
requestForm(c, url, formData, hid) ==
    /\ enter(c, "requestForm", url, formData, hid)
    /\ IF UrlThrows(url) THEN throwInvalidUrl(c)
       ELSE sendPost(c, makeReqOptions(url, hid, "POST"),
                     TextOf(formQueryText(formData.pairs)), FormType)
    /\ UNCHANGED <<heap0, res, hist>>

(***************************************************************************)
(* The listeners sendRequest registers.  Each is run by the transport,     *)
(* which is the environment:                                               *)
(*  - "error" on the request is emitted at most once, at any time after    *)
(*    the request was created (also after req.destroy(): "socket hang      *)
(*    up");                                                                *)
(*  - "timeout" is emitted only if req.setTimeout was given a positive     *)
(*    number of milliseconds and the request is not destroyed;             *)
(*  - the response callback runs at most once, for a request that is not   *)
(*    destroyed; "data" is emitted only between the callback and           *)
(*    "end"/"error" of the response and not once the request is            *)
(*    destroyed; "end" and "error" of the response exclude each other.     *)
(***************************************************************************)
StatusCodes == {200, 404}

\* the content-type header of a response: none, empty, or a MIME type
ResponseContentTypes == {<<>>, <<"">>, <<"application/json">>}

ChunkVals == {<<123>>, <<125, 10>>}

\* the value parseRequestBody returns for these bytes and content type
decodedBody(input) == [bytes |-> input.bytes, as |-> input.contentType]

\* contentTypeMissing enforced for error statuses only
contentTypeMissing_ErrorStatusOnly(r) ==
    r.statusCode >= 400 /\ (r.contentType = <<>> \/ r.contentType = <<"">>)

\* !contentType, for contentType = res.headers["content-type"]
contentTypeMissing(r) == r.contentType = <<>> \/ r.contentType = <<"">>

\* onRequestError sending the request again instead of failing the call
onRequestError_Retry(c) ==
    /\ req[c].created
    /\ ~hist[c].reqError
    /\ req' = [req EXCEPT ![c].requests = @ + 1]
    /\ hist' = [hist EXCEPT ![c].terminal = TRUE, ![c].reqError = TRUE]
    /\ UNCHANGED <<heap, heap0, call, res, outcome>>

\* req.on("error")
onRequestError(c) ==
    /\ req[c].created
    /\ ~hist[c].reqError
    /\ outcome' = [outcome EXCEPT ![c] = settle(@, Rejected("TransportError"))]
    /\ hist' = [hist EXCEPT ![c].settles = @ + 1, ![c].terminal = TRUE,
                            ![c].reqError = TRUE]
    /\ UNCHANGED <<heap, heap0, call, req, res>>

\* onTimeout with the failure reported as any other transport error
onTimeout_GenericError(c) ==
    /\ req[c].created
    /\ req[c].timeout # <<>>
    /\ req[c].timeout[1] > 0
    /\ ~req[c].destroyed
    /\ req' = [req EXCEPT ![c].destroyed = TRUE]
    /\ outcome' = [outcome EXCEPT ![c] = settle(@, Rejected("TransportError"))]
    /\ hist' = [hist EXCEPT ![c].settles = @ + 1, ![c].terminal = TRUE,
                            ![c].timedOutPending = outcome[c].kind = "pending"]
    /\ UNCHANGED <<heap, heap0, call, res>>

\* req.on("timeout")
onTimeout(c) ==
    /\ req[c].created
    /\ req[c].timeout # <<>>
    /\ req[c].timeout[1] > 0
    /\ ~req[c].destroyed
    /\ req' = [req EXCEPT ![c].destroyed = TRUE]
    /\ outcome' = [outcome EXCEPT ![c] = settle(@, Rejected("RequestTimedOut"))]
    /\ hist' = [hist EXCEPT ![c].settles = @ + 1, ![c].terminal = TRUE,
                            ![c].timedOutPending = outcome[c].kind = "pending"]
    /\ UNCHANGED <<heap, heap0, call, res>>

\* reqCallback(res): the listeners of the response are registered
reqCallback(c, statusCode, contentType) ==
    /\ req[c].created
    /\ ~req[c].destroyed
    /\ res[c].state = "none"
    /\ res' = [res EXCEPT ![c] =
                 [state |-> "receiving", contentType |-> contentType,
                  statusCode |-> statusCode, chunks |-> <<>>]]
    /\ UNCHANGED <<heap, heap0, call, req, outcome, hist>>

\* onData handing the caller a result as soon as a chunk arrives
onData_ResolveEarly(c, chunk) ==
    /\ res[c].state = "receiving"
    /\ ~req[c].destroyed
    /\ Len(res[c].chunks) < MaxChunks
    /\ res' = [res EXCEPT ![c].chunks = Append(@, chunk)]
    /\ outcome' = [outcome EXCEPT ![c] = settle(@, Fulfilled(
           [response |-> [bytes |-> chunk, as |-> res[c].contentType],
            host |-> "", method |-> "", path |-> "", protocol |-> "",
            headers |-> res[c].contentType, statusCode |-> res[c].statusCode,
            statusMessage |-> ""]))]
    /\ UNCHANGED <<heap, heap0, call, req, hist>>

\* onData putting each chunk in front of the others (chunks.unshift)
onData_Unshift(c, chunk) ==
    /\ res[c].state = "receiving"
    /\ ~req[c].destroyed
    /\ Len(res[c].chunks) < MaxChunks
    /\ res' = [res EXCEPT ![c].chunks = <<chunk>> \o @]
    /\ hist' = [hist EXCEPT ![c].arrived = @ \o chunk]
    /\ UNCHANGED <<heap, heap0, call, req, outcome>>

\* res.on("data"); hist.arrived: the bytes the transport has delivered
onData(c, chunk) ==
    /\ res[c].state = "receiving"
    /\ ~req[c].destroyed
    /\ Len(res[c].chunks) < MaxChunks
    /\ res' = [res EXCEPT ![c].chunks = Append(@, chunk)]
    /\ hist' = [hist EXCEPT ![c].arrived = @ \o chunk]
    /\ UNCHANGED <<heap, heap0, call, req, outcome>>

\* res.on("error")
onResponseError(c) ==
    /\ res[c].state = "receiving"
    /\ res' = [res EXCEPT ![c].state = "errored"]
    /\ outcome' = [outcome EXCEPT ![c] = settle(@, Rejected("TransportError"))]
    /\ hist' = [hist EXCEPT ![c].settles = @ + 1, ![c].terminal = TRUE]
    /\ UNCHANGED <<heap, heap0, call, req>>

\* the ClientRequestResponse built in res.on("end")
responseOf(c, body) ==
    [response      |-> body,
     host          |-> req[c].options[1].hostname,
     method        |-> req[c].options[1].method,
     path          |-> req[c].options[1].path,
     protocol      |-> req[c].options[1].protocol,
     headers       |-> res[c].contentType,
     statusCode    |-> res[c].statusCode,
     statusMessage |-> ""]

\* res.on("end"); decoderThrows: parseRequestBody throws on these bytes.  An
\* exception thrown in the listener leaves it: nothing settles the promise.
onEnd(c, decoderThrows) ==
    /\ res[c].state = "receiving"
    /\ res' = [res EXCEPT ![c].state = "ended"]
    /\ IF contentTypeMissing(res[c])
       THEN /\ outcome' = [outcome EXCEPT
                             ![c] = settle(@, Rejected("MissingContentType"))]
            /\ hist' = [hist EXCEPT ![c].settles = @ + 1, ![c].terminal = TRUE,
                                    ![c].atEnd = outcome[c].kind]
       ELSE LET input == [bytes |-> Flatten(res[c].chunks),
                          contentType |-> res[c].contentType]
            IN  IF decoderThrows
                THEN /\ outcome' = outcome
                     /\ hist' = [hist EXCEPT ![c].terminal = TRUE,
                                             ![c].decoded = Append(@, input),
                                             ![c].decoderThrew = TRUE,
                                             ![c].atEnd = outcome[c].kind]
                ELSE /\ outcome' = [outcome EXCEPT ![c] =
                           settle(@, Fulfilled(responseOf(c, decodedBody(input))))]
                     /\ hist' = [hist EXCEPT ![c].settles = @ + 1,
                                             ![c].terminal = TRUE,
                                             ![c].decoded = Append(@, input),
                                             ![c].atEnd = outcome[c].kind]
    /\ UNCHANGED <<heap, heap0, call, req>>

(***************************************************************************)
(* Inputs.                                                                 *)
(***************************************************************************)
\* Request-Timeout texts: "1", " 2s", "s", "0".  (A negative number of
\* seconds is left out: req.setTimeout rejects it.)
TimeoutTexts == {<<"1">>, <<" ", "2", "s">>, <<"s">>, <<"0">>}

\* headers maps of a caller that sets Request-Timeout only
TimeoutHeaders == {WithEntries(<<>>, <<>>, rt) : rt \in {<<>>} \cup {<<t>> : t \in TimeoutTexts}}

\* headers maps of a caller that sets Content-Type and Content-Length
ContentHeaders ==
    {WithEntries(ct, cl, <<>>) : ct \in {<<>>, <<"">>, <<"text/csv">>},
                                 cl \in {<<>>, <<"999">>}}

\* the same maps, with and without an entry of another name
CallerHeaders ==
    ContentHeaders \cup {Put(h, "Accept", "text/plain") : h \in ContentHeaders}

\* {}, {number: 42, text: "foo"}, {"f&": "€"}
Forms ==
    {[t |-> "form", pairs |-> ps] : ps \in
        {<<>>,
         << <<(<<110, 117, 109, 98, 101, 114>>), NumberOf(42)>>,
            <<(<<116, 101, 120, 116>>), TextOf(<<102, 111, 111>>)>> >>,
         << <<(<<102, 38>>), TextOf(<<8364>>)>> >>}}

FewData == {Null, TextOf(<<8364>>), CyclicObject}

SomeData == {Null, BufferOf(<<102>>), TextOf(<<8364>>), ObjectOf(<<>>)}

(***************************************************************************)
(* Spec: one call, from its entry to the last event of its transport.      *)
(***************************************************************************)
Init ==
    /\ heap \in [HeaderIds -> TimeoutHeaders]
    /\ heap[2] = NoHeaders
    /\ InitCalls

Next ==
    \/ \E url \in {BadUrl, HttpsUrl} : requestHead(1, url, 1)
    \/ \E url \in {BadUrl, HttpsUrl} : requestGet(1, url, 1)
    \/ \E url \in {BadUrl, HttpsUrl}, data \in FewData : requestPost(1, url, data, 1)
    \/ \E url \in {BadUrl, HttpsUrl}, data \in FewData : requestPut(1, url, data, 1)
    \/ \E url \in {BadUrl, HttpsUrl}, data \in FewData : requestJson(1, url, data, 1)
    \/ \E url \in {BadUrl, HttpsUrl}, form \in Forms : requestForm(1, url, form, 1)
    \/ onRequestError(1)
    \/ onTimeout(1)
    \/ \E sc \in StatusCodes, ct \in ResponseContentTypes : reqCallback(1, sc, ct)
    \/ \E chunk \in ChunkVals : onData(1, chunk)
    \/ onResponseError(1)
    \/ \E throws \in BOOLEAN : onEnd(1, throws)

Spec == Init /\ [][Next]_vars

(***************************************************************************)
(* SpecEncode: the synchronous part of one call, over every kind of data.  *)
(***************************************************************************)
InitEncode ==
    /\ heap \in [HeaderIds -> CallerHeaders]
    /\ heap[2] = NoHeaders
    /\ InitCalls

EncodeUrls == {BadUrl, HttpsUrl, HttpUrl, HttpPortUrl, HttpsPortUrl}

NextEncode ==
    \/ \E url \in EncodeUrls : requestHead(1, url, 1)
    \/ \E url \in EncodeUrls : requestGet(1, url, 1)
    \/ \E url \in EncodeUrls, data \in DataValues(MaxDataLen) : requestPost(1, url, data, 1)
    \/ \E url \in EncodeUrls, data \in DataValues(MaxDataLen) : requestPut(1, url, data, 1)
    \/ \E url \in EncodeUrls, data \in DataValues(MaxDataLen) : requestJson(1, url, data, 1)
    \/ \E url \in EncodeUrls, form \in Forms : requestForm(1, url, form, 1)

SpecEncode == InitEncode /\ [][NextEncode]_vars

(***************************************************************************)
(* SpecTwoCalls: the synchronous parts of two calls, in either order, on   *)
(* the same headers map or on two.                                         *)
(***************************************************************************)
InitTwoCalls ==
    /\ heap \in [HeaderIds -> ContentHeaders]
    /\ heap[2] \in {NoHeaders, WithEntries(<<"text/csv">>, <<>>, <<>>)}
    /\ InitCalls

NextTwoCalls ==
    \/ \E c \in Calls, hid \in HeaderIds : requestHead(c, HttpsUrl, hid)
    \/ \E c \in Calls, hid \in HeaderIds : requestGet(c, HttpUrl, hid)
    \/ \E c \in Calls, hid \in HeaderIds, data \in SomeData : requestPost(c, HttpsUrl, data, hid)
    \/ \E c \in Calls, hid \in HeaderIds, data \in SomeData : requestPut(c, HttpUrl, data, hid)
    \/ \E c \in Calls, hid \in HeaderIds, data \in SomeData : requestJson(c, HttpsUrl, data, hid)
    \/ \E c \in Calls, hid \in HeaderIds, form \in Forms : requestForm(c, HttpPortUrl, form, hid)

SpecTwoCalls == InitTwoCalls /\ [][NextTwoCalls]_vars

(***************************************************************************)
(* SpecSilent: one call to a server that accepts the connection and never  *)
(* responds.  The transport reports no error of its own; it fires the      *)
(* armed timer (weak fairness: node's timers run) and may report "socket   *)
(* hang up" once the request is destroyed.                                 *)
(***************************************************************************)
NextSilent ==
    \/ \E url \in {BadUrl, HttpsUrl} : requestHead(1, url, 1)
    \/ \E url \in {BadUrl, HttpsUrl} : requestGet(1, url, 1)
    \/ \E url \in {BadUrl, HttpsUrl}, data \in SomeData : requestPost(1, url, data, 1)
    \/ \E url \in {BadUrl, HttpsUrl}, data \in SomeData : requestPut(1, url, data, 1)
    \/ \E url \in {BadUrl, HttpsUrl}, data \in SomeData : requestJson(1, url, data, 1)
    \/ \E url \in {BadUrl, HttpsUrl}, form \in Forms : requestForm(1, url, form, 1)
    \/ onTimeout(1)
    \/ (req[1].destroyed /\ onRequestError(1))

SpecSilent == Init /\ [][NextSilent]_vars /\ WF_vars(onTimeout(1))

(***************************************************************************)
(* Claims checked under Spec.                                              *)
(***************************************************************************)
Settled(c) == outcome[c].kind \in {"fulfilled", "rejected"}

\* C1: once a terminal event of a call's transport (request error, timeout,
\* response error, response end) has been handled, the caller holds exactly
\* one outcome, a result or a failure.
C1_OneOutcomePerCall ==
    \A c \in Calls : hist[c].terminal => Settled(c)

C4_DecoderFailureRejects ==
    \A c \in Calls :
        hist[c].decoderThrew
        => outcome[c].kind = "rejected" /\ outcome[c].error = "BodyDecodeError"

\* C5: a response that ends with no content-type header fails a pending
\* call with MissingContentType, for every status code and body; the
\* decoder is not invoked and the caller never holds a result.
C5_MissingContentType ==
    \A c \in Calls :
        (res[c].state = "ended" /\ res[c].contentType = <<>>)
        => /\ hist[c].decoded = <<>>
           /\ outcome[c].kind = "rejected"
           /\ hist[c].atEnd = "pending" => outcome[c] = Rejected("MissingContentType")

\* a 200 response with a body and no content-type header has ended
C5_Witness ==
    /\ res[1].state = "ended"
    /\ res[1].contentType = <<>>
    /\ res[1].statusCode = 200
    /\ res[1].chunks # <<>>
    /\ outcome[1] = Rejected("MissingContentType")

\* C6: the caller holds a result, and the decoder has run, only after the
\* response has ended; the result carries the whole body; a failure carries
\* no part of it.
C6_ResultOnlyAfterEnd ==
    \A c \in Calls :
        /\ (outcome[c].kind = "fulfilled" \/ hist[c].decoded # <<>>)
           => res[c].state = "ended"
        /\ outcome[c].kind = "fulfilled"
           => outcome[c].value[1].response.bytes = Flatten(res[c].chunks)
        /\ outcome[c].kind = "rejected" => outcome[c].value = <<>>

\* a result made of two chunks
C6_Witness ==
    /\ outcome[1].kind = "fulfilled"
    /\ Len(res[1].chunks) = 2
    /\ res[1].chunks[1] # res[1].chunks[2]

\* C10: a call whose URL does not parse has failed with InvalidUrl and has
\* created no request: nothing written, no timeout armed, no response.
C10_InvalidUrlBeforeNetwork ==
    \A c \in Calls :
        (Called(c) /\ ~CallOf(c).url.valid)
        => /\ outcome[c] = Rejected("InvalidUrl")
           /\ req[c] = NoRequest
           /\ res[c] = NoResponse
           /\ hist[c] = NoHistory
           /\ heap[CallOf(c).hid] = CallOf(c).before

\* requestForm with a bad URL and a Request-Timeout of one second
C10_Witness ==
    /\ Called(1)
    /\ CallOf(1).op = "requestForm"
    /\ ~CallOf(1).url.valid
    /\ CallOf(1).data.pairs # <<>>
    /\ Has(heap[1], "Request-Timeout")
    /\ heap[1]["Request-Timeout"] = <<"1">>
    /\ outcome[1] = Rejected("InvalidUrl")

(***************************************************************************)
(* Claim checked under SpecSilent.                                         *)
(***************************************************************************)
\* C3: a dispatched call whose Request-Timeout header is a positive integer
\* and whose server never responds eventually has failed with
\* RequestTimedOut with its request destroyed, and stays so.
C3_SilentServerTimesOut ==
    (/\ req[1].created
     /\ Has(req[1].headers, "Request-Timeout")
     /\ ~parseInt(req[1].headers["Request-Timeout"]).nan
     /\ parseInt(req[1].headers["Request-Timeout"]).n > 0)
    ~> [](outcome[1] = Rejected("RequestTimedOut") /\ req[1].destroyed)

\* the call timed out with no response, and the hang-up error that followed
\* the destruction changed nothing
C3_Witness ==
    /\ req[1].headers = WithEntries(<<>>, <<>>, << <<"1">> >>)
    /\ res[1].state = "none"
    /\ req[1].destroyed
    /\ hist[1].settles = 2
    /\ outcome[1] = Rejected("RequestTimedOut")

(***************************************************************************)
(* Claims checked under SpecEncode.                                        *)
(***************************************************************************)
BodyOps == {"requestPost", "requestPut", "requestJson", "requestForm"}

\* C7: for requestPost, requestPut, requestJson and requestForm the
\* Content-Length header of the request is the decimal number of bytes
\* written to it ("0" when nothing is written), whatever the caller put
\* under Content-Length.
C7_ContentLengthIsByteLength ==
    \A c \in Calls :
        (req[c].created /\ CallOf(c).op \in BodyOps)
        => /\ Has(req[c].headers, "Content-Length")
           /\ req[c].headers["Content-Length"] = IntToString(Len(Flatten(req[c].writes)))
           /\ heap[CallOf(c).hid]["Content-Length"] = req[c].headers["Content-Length"]

\* requestPut of a two-character text of six bytes over a caller's "999"
C7_Witness ==
    /\ req[1].created
    /\ CallOf(1).op = "requestPut"
    /\ CallOf(1).data = TextOf(<<8364, 8364>>)
    /\ Has(CallOf(1).before, "Content-Length")
    /\ CallOf(1).before["Content-Length"] = "999"
    /\ req[1].headers["Content-Length"] = "6"
    /\ req[1].writes = << <<226, 130, 172, 226, 130, 172>> >>

\* C8: a Content-Type entry the caller supplied is the Content-Type of the
\* request; the default of the encoding mode is written only when the
\* caller supplied none.
C8_CallerContentTypeKept ==
    \A c \in Calls :
        (req[c].created /\ CallOf(c).op \in BodyOps /\ Has(CallOf(c).before, "Content-Type"))
        => req[c].headers["Content-Type"] = CallOf(c).before["Content-Type"]

(***************************************************************************)
(* Claim checked under SpecTwoCalls.                                       *)
(***************************************************************************)
MethodOf(op) ==
    CASE op = "requestHead" -> "HEAD"
      [] op = "requestGet" -> "GET"
      [] op = "requestPut" -> "PUT"
      [] OTHER -> "POST"

\* what the operation hands to sendPost
BodyOf(op, data) ==
    CASE op \in {"requestPost", "requestPut"} -> postPutBody(data)
      [] op = "requestJson" -> [data |-> JsonStringify(data), contentType |-> JsonType]
      [] op = "requestForm" ->
            [data |-> TextOf(formQueryText(data.pairs)), contentType |-> FormType]

\* the headers of the request of call c, had it been the only call made
\* with the headers map as the caller built it
HeadersAlone(c) ==
    LET k == CallOf(c)
    IN  IF k.op \in BodyOps
        THEN sendPostHeaders(heap0[k.hid], BodyOf(k.op, k.data).data,
                             BodyOf(k.op, k.data).contentType)
        ELSE heap0[k.hid]

WritesAlone(c) ==
    LET k == CallOf(c)
    IN  IF k.op \in BodyOps THEN requestWrites(BodyOf(k.op, k.data).data) ELSE <<>>

\* C9: the descriptor, the headers and the payload of the request of each
\* call are those the call produces when it is the only call made, also
\* when both calls are given the same headers map.
C9_CallsIndependent ==
    \A c \in Calls :
        req[c].created
        => /\ req[c].options =
                  <<makeReqOptions(CallOf(c).url, CallOf(c).hid, MethodOf(CallOf(c).op))>>
           /\ req[c].writes = WritesAlone(c)
           /\ req[c].headers = HeadersAlone(c)

(***************************************************************************)
(* Further claims checked under Spec.                                      *)
(***************************************************************************)
\* the call got as far as sendRequest
ReachesSendRequest(c) ==
    /\ Called(c)
    /\ CallOf(c).url.valid
    /\ ~(CallOf(c).op \in {"requestPost", "requestPut", "requestJson"}
         /\ JsonStringifyThrows(CallOf(c).data))

\* C11 as stated: a call whose URL parses has created exactly one transport
\* request, any other call none, and never more than one.
C11_OneRequestWhenUrlParses ==
    \A c \in Calls :
        /\ req[c].requests <= 1
        /\ (Called(c) /\ CallOf(c).url.valid) => req[c].requests = 1
        /\ (Called(c) /\ ~CallOf(c).url.valid) => req[c].requests = 0

\* C11 amended: transporter.request is called at most once per call, exactly
\* once when URL parsing and the serialisation of the body both succeed, and
\* never again after a failure of any kind.
C11_OneRequestPerCall ==
    \A c \in Calls :
        /\ req[c].requests <= 1
        /\ ReachesSendRequest(c) => req[c].requests = 1
        /\ ~ReachesSendRequest(c) => req[c].requests = 0
        /\ req[c].created <=> req[c].requests = 1

\* a request error, a timeout and the end of a response without content
\* type have all been handled, and one request was made
C11_Witness ==
    /\ req[1].requests = 1
    /\ hist[1].reqError
    /\ req[1].destroyed
    /\ res[1].state = "ended"
    /\ hist[1].settles = 3
    /\ outcome[1].kind = "rejected"

\* where call c stands in its lifecycle.  BUILDING and ENCODING are passed
\* inside the synchronous part of the operation, so a call is first seen in
\* DISPATCHED or in FAILED; DECODING is seen when the decoder has thrown.
Phase(c) ==
    CASE ~Called(c) -> "NOTCALLED"
      [] outcome[c].kind = "rejected" -> "FAILED"
      [] outcome[c].kind = "fulfilled" -> "COMPLETE"
      [] res[c].state = "none" -> "DISPATCHED"
      [] res[c].state = "receiving" -> "RECEIVING"
      [] OTHER -> "DECODING"

Rank(phase) ==
    CASE phase = "NOTCALLED" -> 0
      [] phase = "BUILDING" -> 1
      [] phase = "ENCODING" -> 2
      [] phase = "DISPATCHED" -> 3
      [] phase = "RECEIVING" -> 4
      [] phase = "DECODING" -> 5
      [] phase = "COMPLETE" -> 6
      [] phase = "FAILED" -> 6

Forward(from, to) ==
    \/ to = from
    \/ /\ from \notin {"COMPLETE", "FAILED"}
       /\ to = "FAILED" \/ Rank(to) > Rank(from)

\* C16: every step leaves a call in its lifecycle state or moves it to a
\* later one of BUILDING, ENCODING, DISPATCHED, RECEIVING, DECODING, COMPLETE,
\* or from a state that is not terminal to FAILED; no step leaves COMPLETE
\* or FAILED.
C16_LifecycleForward ==
    [][\A c \in Calls : Forward(Phase(c), Phase(c)')]_vars

\* the call completed, and a request error and a timeout came afterwards
C16_Witness ==
    /\ outcome[1].kind = "fulfilled"
    /\ hist[1].reqError
    /\ req[1].destroyed
    /\ hist[1].settles = 3

\* C17: parseRequestBody is called at most once for a call, only when the
\* response has ended, and with exactly the bytes the transport delivered,
\* chunk after chunk in the order of their arrival.
C17_DecoderGetsAllChunksOnce ==
    \A c \in Calls :
        /\ Len(hist[c].decoded) <= 1
        /\ hist[c].decoded # <<>>
           => /\ res[c].state = "ended"
              /\ hist[c].decoded[1].bytes = hist[c].arrived

\* the chunks "}\n" and "{" arrived in this order and were decoded
C17_Witness ==
    /\ Len(hist[1].decoded) = 1
    /\ Len(res[1].chunks) = 2
    /\ hist[1].arrived = <<125, 10, 123>>
    /\ hist[1].decoded[1].bytes = <<125, 10, 123>>

(***************************************************************************)
(* Further claims checked under SpecEncode.                                *)
(***************************************************************************)
\* the bytes a request carried
Payload(c) == Flatten(req[c].writes)

\* the Content-Type of the request is the caller's, or this default when
\* the caller's map had no Content-Type entry
DefaultsTo(c, contentType) ==
    /\ Has(req[c].headers, "Content-Type")
    /\ ~Has(CallOf(c).before, "Content-Type")
       => req[c].headers["Content-Type"] = contentType

\* C12: requestPost and requestPut (method POST and PUT, otherwise alike)
\* encode by the kind of the data alone: null/undefined gives no payload,
\* Content-Length "0" and the caller's Content-Type entry left as it was;
\* a Buffer gives its bytes with default application/octet-stream; another
\* object gives its JSON text with default application/json;charset=utf-8;
\* a string gives its UTF-8 bytes with default text/plain;charset=utf-8.
C12_ModeFromDataAlone ==
    \A c \in Calls :
        (req[c].created /\ CallOf(c).op \in {"requestPost", "requestPut"})
        => LET data == CallOf(c).data
               h0 == CallOf(c).before
           IN  /\ req[c].options[1].method =
                     (IF CallOf(c).op = "requestPost" THEN "POST" ELSE "PUT")
               /\ data.t \in {"null", "undefined"}
                  => /\ req[c].writes = <<>>
                     /\ req[c].headers["Content-Length"] = "0"
                     /\ Has(req[c].headers, "Content-Type") = Has(h0, "Content-Type")
                     /\ Has(h0, "Content-Type")
                        => req[c].headers["Content-Type"] = h0["Content-Type"]
               /\ data.t = "buffer"
                  => /\ req[c].writes = <<data.bytes>>
                     /\ DefaultsTo(c, "application/octet-stream")
               /\ data.t = "object"
                  => /\ Payload(c) = Utf8Encode(JsonStringify(data).s)
                     /\ DefaultsTo(c, "application/json;charset=utf-8")
               /\ data.t = "string"
                  => /\ Payload(c) = Utf8Encode(data.s)
                     /\ DefaultsTo(c, "text/plain;charset=utf-8")

\* requestPut of the Buffer ff 66 with no Content-Type from the caller
C12_Witness ==
    /\ req[1].created
    /\ CallOf(1).op = "requestPut"
    /\ CallOf(1).data = BufferOf(<<255, 102>>)
    /\ ~Has(CallOf(1).before, "Content-Type")
    /\ req[1].options[1].method = "PUT"
    /\ req[1].writes = << <<255, 102>> >>
    /\ req[1].headers["Content-Type"] = "application/octet-stream"
    /\ req[1].headers["Content-Length"] = "2"


\* how many times byte b occurs in bs
RECURSIVE Occurrences(_, _)
Occurrences(b, bs) ==
    IF bs = <<>> THEN 0
    ELSE (IF Head(bs) = b THEN 1 ELSE 0) + Occurrences(b, Tail(bs))

\* C13: requestForm sends, by POST, one key=value pair for each key of the
\* form, the pairs joined by '&', key and value each percent-encoded on its
\* own, with default Content-Type application/x-www-form-urlencoded:
\* {number: 42, text: "foo"} is sent as number=42&text=foo, and
\* {"f&": "€"} as f%26=%E2%82%AC.
C13_FormPairsEncoded ==
    \A c \in Calls :
        (req[c].created /\ CallOf(c).op = "requestForm")
        => LET pairs == CallOf(c).data.pairs
           IN  /\ req[c].options[1].method = "POST"
               /\ DefaultsTo(c, "application/x-www-form-urlencoded")
               /\ Occurrences(61, Payload(c)) = Len(pairs)
               /\ Occurrences(38, Payload(c)) = (IF pairs = <<>> THEN 0 ELSE Len(pairs) - 1)
               /\ \A i \in 1..Len(Payload(c)) :
                     Payload(c)[i] \in {37, 38, 61} \/ UriUnreserved(Payload(c)[i])
               /\ Len(pairs) = 2
                  => Payload(c) = <<110, 117, 109, 98, 101, 114, 61, 52, 50, 38,
                                    116, 101, 120, 116, 61, 102, 111, 111>>
               /\ Len(pairs) = 1
                  => Payload(c) = <<102, 37, 50, 54, 61,
                                    37, 69, 50, 37, 56, 50, 37, 65, 67>>

\* the form {"f&": "€"} sent with the default content type
C13_Witness ==
    /\ req[1].created
    /\ CallOf(1).op = "requestForm"
    /\ Len(CallOf(1).data.pairs) = 1
    /\ ~Has(CallOf(1).before, "Content-Type")
    /\ req[1].headers["Content-Type"] = "application/x-www-form-urlencoded"
    /\ req[1].headers["Content-Length"] = "14"
    /\ Len(Payload(1)) = 14


\* C14: the port of the request descriptor is the explicit port of the URL
\* whenever it has one, and otherwise 443 for https and 80 for http.
C14_PortResolution ==
    \A c \in Calls :
        req[c].created
        => LET url == CallOf(c).url
               port == req[c].options[1].port
           IN  /\ url.port # <<>> => port = DecimalValue(url.port)
               /\ (url.port = <<>> /\ url.protocol = "https:") => port = 443
               /\ (url.port = <<>> /\ url.protocol = "http:") => port = 80

\* https with the explicit port 8443
C14_Witness ==
    /\ req[1].created
    /\ CallOf(1).url.protocol = "https:"
    /\ CallOf(1).url.port = <<"8", "4", "4", "3">>
    /\ req[1].options[1].port = 8443


\* requestPost or requestPut was given this data and made its request
PostPutOf(c, data) ==
    /\ req[c].created
    /\ CallOf(c).op \in {"requestPost", "requestPut"}
    /\ CallOf(c).data = data

\* the request of a call without data: nothing written, Content-Length "0",
\* every other header as the caller gave it
AbsentRequest(c) ==
    /\ req[c].writes = <<>>
    /\ req[c].headers = Put(CallOf(c).before, "Content-Length", "0")

\* C19 as stated: requestPost and requestPut make the same request for
\* null, for undefined and for the empty string.
C19_EmptyStringIsAbsent ==
    \A c \in Calls :
        (PostPutOf(c, Null) \/ PostPutOf(c, Undefined) \/ PostPutOf(c, TextOf(<<>>)))
        => AbsentRequest(c)

\* C19 amended: null and undefined make the same request (nothing written,
\* Content-Length "0", Content-Type as the caller gave it); the empty
\* string also writes nothing and has Content-Length "0", but is encoded as
\* text: its Content-Type is text/plain;charset=utf-8 unless the caller
\* gave a non-empty Content-Type, and only then is its request the same.
C19_EmptyStringIsText ==
    \A c \in Calls :
        /\ (PostPutOf(c, Null) \/ PostPutOf(c, Undefined)) => AbsentRequest(c)
        /\ PostPutOf(c, TextOf(<<>>))
           => LET h0 == CallOf(c).before
                  given == Has(h0, "Content-Type") /\ h0["Content-Type"] # ""
              IN  /\ req[c].writes = <<>>
                  /\ req[c].headers["Content-Length"] = "0"
                  /\ Has(req[c].headers, "Content-Type")
                  /\ req[c].headers["Content-Type"] =
                        (IF given THEN h0["Content-Type"]
                         ELSE "text/plain;charset=utf-8")
                  /\ given <=> AbsentRequest(c)

\* requestPost of "" with no headers from the caller
C19_Witness ==
    /\ PostPutOf(1, TextOf(<<>>))
    /\ CallOf(1).op = "requestPost"
    /\ CallOf(1).before = NoHeaders
    /\ req[1].writes = <<>>
    /\ req[1].headers["Content-Length"] = "0"
    /\ req[1].headers["Content-Type"] = "text/plain;charset=utf-8"

\* the entries of h under names other than Content-Length and Content-Type
OtherEntries(h) ==
    [k \in DOMAIN h \ {"Content-Length", "Content-Type"} |-> h[k]]

\* C20: requestHead and requestGet leave the caller's headers map as it was
\* and write nothing to the request; requestPost, requestPut, requestJson
\* and requestForm change no entry of the map other than Content-Length and
\* Content-Type; a map not given to the call is not changed.
C20_HeadersFrame ==
    \A c \in Calls :
        Called(c)
        => LET k == CallOf(c)
           IN  /\ k.op \in {"requestHead", "requestGet"}
                  => /\ heap[k.hid] = k.before
                     /\ req[c].writes = <<>>
                     /\ req[c].created
                        => /\ req[c].headers = k.before
                           /\ req[c].calls = <<"end">>
               /\ k.op \in BodyOps
                  => OtherEntries(heap[k.hid]) = OtherEntries(k.before)
               /\ \A hid \in HeaderIds \ {k.hid} : heap[hid] = heap0[hid]

\* requestGet with a map that holds Accept, Content-Type and Content-Length
C20_Witness ==
    /\ req[1].created
    /\ CallOf(1).op = "requestGet"
    /\ Has(CallOf(1).before, "Accept")
    /\ Has(CallOf(1).before, "Content-Type")
    /\ Has(CallOf(1).before, "Content-Length")
    /\ CallOf(1).before["Content-Length"] = "999"
    /\ heap[1]["Content-Length"] = "999"
    /\ req[1].headers["Content-Type"] = "text/csv"

(***************************************************************************)
(* Further claims checked under SpecTwoCalls.                              *)
(***************************************************************************)
\* both calls encode the same data with the same operation, on the same
\* headers map or on two maps with the same entries
SameEncoding(c, d) ==
    /\ c # d
    /\ req[c].created /\ req[d].created
    /\ CallOf(c).op \in BodyOps
    /\ CallOf(c).op = CallOf(d).op
    /\ CallOf(c).data = CallOf(d).data
    /\ \/ CallOf(c).hid = CallOf(d).hid
       \/ CallOf(c).before = CallOf(d).before

\* C15: encoding the same data twice, the second time also on the headers
\* map the first encoding has written to, gives the same payload, the same
\* Content-Length and the same Content-Type.
C15_EncodingIdempotent ==
    \A c, d \in Calls :
        SameEncoding(c, d)
        => /\ req[c].writes = req[d].writes
           /\ req[c].headers["Content-Length"] = req[d].headers["Content-Length"]
           /\ Has(req[c].headers, "Content-Type") = Has(req[d].headers, "Content-Type")
           /\ Has(req[c].headers, "Content-Type")
              => req[c].headers["Content-Type"] = req[d].headers["Content-Type"]

\* the second requestPost of the same text found the Content-Type and the
\* Content-Length of the first in the map
C15_Witness ==
    /\ SameEncoding(1, 2)
    /\ CallOf(1).op = "requestPost"
    /\ CallOf(1).data = TextOf(<<8364>>)
    /\ CallOf(1).hid = CallOf(2).hid
    /\ CallOf(1).before # CallOf(2).before
    /\ req[2].headers["Content-Type"] = "text/plain;charset=utf-8"
    /\ req[2].headers["Content-Length"] = "3"


(***************************************************************************)
(* Further claims checked under Spec: the request stream.                  *)
(***************************************************************************)
\* the bytes of an encoded body
BytesOf(body) ==
    CASE body.t = "buffer" -> body.bytes
      [] body.t = "string" -> Utf8Encode(body.s)
      [] OTHER -> <<>>

\* the bytes call c has to send
PayloadOf(c) ==
    IF CallOf(c).op \in BodyOps
    THEN BytesOf(BodyOf(CallOf(c).op, CallOf(c).data).data)
    ELSE <<>>

====
